---- MODULE Spec2Model ----
(***************************************************************************)
(* Model of Scripts/xbbtools/nextorf.py: the NextOrf class that scans a    *)
(* nucleotide sequence for open reading frames.  One FASTA record is read, *)
(* GetCDS is run on the selected strands, and Output formats the records.  *)
(* A sequence is a TLA+ sequence of one-letter strings; Python's 0-based   *)
(* half-open slices are modelled by PySlice.                               *)
(***************************************************************************)
EXTENDS Integers, Sequences, FiniteSets, TLC

\* ---------------------------------------------------------------- bounds
\* Longest FASTA record drawn symbol by symbol.
MaxLen == 3

\* Most codons of the FASTA records drawn codon by codon.
MaxCodons == 3

\* Symbols the records drawn symbol by symbol are written in.
Alphabet == {"A", "T", "G", "C"}

\* The records drawn codon by codon: a run of these codons (a start codon, a
\* stop codon and the reverse complements of both), after at most two pad
\* symbols, which put the run in frame 1, 2 or 3, and before at most two tail
\* symbols, which leave a partial codon at the end.
Codons == {<<"A", "T", "G">>, <<"T", "A", "G">>, <<"C", "A", "T">>, <<"T", "T", "A">>}
Pads == {<<>>, <<"C">>, <<"C", "C">>}
Tails == {<<>>, <<"A">>, <<"A", "A">>}

\* Values of --minlength and --maxlength that are tried.
MinLengths == {1, 7}
MaxLengths == {3, 100}

\* Values of --strand, --nostart and the truthiness of --gc that are tried.
Strands == {"plus", "minus", "both"}
NoStarts == {"0", "1"}
GcFlags == {FALSE, TRUE}

\* Defaults of the options dictionary for --start and --stop.
OptStart == 0
OptStop == 0

\* ------------------------------------------------- external collaborators
\* Start and stop codons of the active genetic-code table (table 1, the
\* standard code), restricted to unambiguous codons.
start_codons == {<<"A", "T", "G">>, <<"T", "T", "G">>, <<"C", "T", "G">>}
stop_codons == {<<"T", "A", "A">>, <<"T", "A", "G">>, <<"T", "G", "A">>}

\* Bio.Seq.reverse_complement on the symbols of the model.
Complement(c) ==
  CASE c = "A" -> "T"
    [] c = "T" -> "A"
    [] c = "G" -> "C"
    [] c = "C" -> "G"
    [] OTHER -> c

reverse_complement(s) ==
  [i \in 1..Len(s) |-> Complement(s[Len(s) + 1 - i])]

\* ------------------------------------------------------- Python helpers
\* s[lo:hi] with Python's treatment of negative and out-of-range indices.
PySlice(s, lo, hi) ==
  LET n == Len(s)
      norm(x) == IF x < 0 THEN (IF x + n < 0 THEN 0 ELSE x + n)
                 ELSE (IF x > n THEN n ELSE x)
      a == norm(lo)
      b == norm(hi)
  IN IF a >= b THEN <<>> ELSE SubSeq(s, a + 1, b)

\* ------------------------------------------------------ GetOrfCoordinates
START == 1
STOP == 0

XXX == <<"X", "X", "X">>

\* ScanLimit with the last codon start left out.
ScanLimitShort(n) == n - (n % 3) - 3

\* Exclusive upper limit of the codon start indices: range(frame, n - n % 3, 3).
ScanLimit(n) == n - (n % 3)

\* 1-based position recorded for the codon starting at index i.
BoundaryPos(i) == i + 1

\* The body of the inner loop over i = from, from + 3, ... below limit.
RECURSIVE ScanFrame(_, _, _)
ScanFrame(seq, i, limit) ==
  IF i >= limit THEN <<>>
  ELSE LET codon == PySlice(seq, i, i + 3)
           hit == IF codon \in start_codons
                    THEN <<[pos |-> BoundaryPos(i), codon_type |-> START, codon |-> codon]>>
                  ELSE IF codon \in stop_codons
                    THEN <<[pos |-> BoundaryPos(i), codon_type |-> STOP, codon |-> codon]>>
                  ELSE <<>>
       IN hit \o ScanFrame(seq, i + 3, limit)

\* frame_coordinates: element k is the list of frame offset k - 1.
GetOrfCoordinates(seq) ==
  [k \in 1..3 |-> ScanFrame(seq, k - 1, ScanLimit(Len(seq)))]

\* ------------------------------------------------------------------ GetCDS
\* The terminal entry appended to every frame's list.
Sentinel(length) == [pos |-> length, codon_type |-> STOP, codon |-> XXX]

\* AppendSentinel that closes only a frame that has a boundary.
AppendSentinelIfAny(frame, length) ==
  IF frame = <<>> THEN frame ELSE Append(frame, Sentinel(length))

AppendSentinel(frame, length) == Append(frame, Sentinel(length))

\* start_site before the first boundary of a frame.
InitialStart(nostart) == IF nostart = "1" THEN 1 ELSE 0

\* OnStart with the latest start winning.
OnStartLatest(start_site, pos) == pos

\* A START boundary: opens an ORF only when none is open.
OnStart(start_site, pos) == IF start_site = 0 THEN pos ELSE start_site

\* StopEnd one symbol too far.
StopEndPastCodon(pos) == pos + 3

\* Inclusive end of the codon at pos.
StopEnd(pos) == pos + 2

OrfLength(stop, start_site) == stop - start_site + 1

\* InBounds without the upper bound.
InBoundsNoMax(length, minlength, maxlength) == length >= minlength

InBounds(length, minlength, maxlength) ==
  length >= minlength /\ length <= maxlength

\* The test of the elif branch, line 183.
OutOfBounds(length, minlength, maxlength) ==
  length < minlength \/ length > maxlength

\* Reported start: shifted by f - 1 for the ORF opened implicitly at 1.
ShiftStart(nostart, start_site, f) ==
  IF nostart = "1" /\ start_site = 1 THEN start_site + f - 1 ELSE start_site

\* Reported stop: recomputed when the closing boundary is the sentinel.
AdjustStop(codon, stop, start_site) ==
  IF codon = XXX THEN start_site + 3 * (((stop - 1) - start_site) \div 3)
  ELSE stop

\* Reopen on the stop codon's last symbol.
ReopenAtStop(nostart, stop) == IF nostart = "1" THEN stop ELSE 0

\* start_site after an ORF is closed.
Reopen(nostart, stop) == IF nostart = "1" THEN stop + 1 ELSE 0

\* -------------------------------------------------------------------- Gc2
\* Number of codons of seq whose symbol at codon position p (0..2) is nt.
CountAt(seq, nt, p) ==
  Cardinality({i \in 1..Len(seq) : (i - 1) % 3 = p /\ seq[i] = nt})

\* 100.0 * num / den in tenths, as "%.1f" writes it (ties go to the even digit).
Tenths(num, den) ==
  LET q == (1000 * num) \div den
      r == (1000 * num) % den
  IN IF 2 * r > den \/ (2 * r = den /\ q % 2 = 1) THEN q + 1 ELSE q

\* The four percentages of Gc2, or the exception it ends with.
Gc2(seq) ==
  LET n(p) == CountAt(seq, "G", p) + CountAt(seq, "C", p)
                + CountAt(seq, "T", p) + CountAt(seq, "A", p)
      g(p) == CountAt(seq, "G", p) + CountAt(seq, "C", p)
      nall == n(0) + n(1) + n(2)
      gcall == g(0) + g(1) + g(2)
  IN IF \E p \in 0..2 : n(p) = 0
       THEN [error |-> "ZeroDivisionError", gcall |-> 0, gc |-> <<0, 0, 0>>]
     ELSE [error |-> "none", gcall |-> Tenths(gcall, nall),
           gc |-> <<Tenths(g(0), n(0)), Tenths(g(1), n(1)), Tenths(g(2), n(2))>>]

\* ------------------------------------------------------------------ state
VARIABLES
  record,            \* record.seq of the FASTA record being read
  strand_opt,        \* options["strand"]
  nostart,           \* options["nostart"]
  minlength,         \* options["minlength"]
  maxlength,         \* options["maxlength"]
  gc_opt,            \* truthiness of options["gc"]
  pc,                \* position in ReadFile / GetCDS / Output
  self_seq,          \* self.seq
  self_length,       \* self.length
  rseq,              \* self.rseq
  seq,               \* GetCDS's argument seq
  strand,            \* GetCDS's argument strand
  frame_coordinates, \* GetCDS's frame_coordinates (sentinels included once appended)
  f,                 \* GetCDS's f
  idx,               \* index in the current frame of the next boundary
  start_site,        \* GetCDS's start_site
  CDS,               \* GetCDS's CDS
  all_CDS,           \* ReadFile's CDS
  counter,           \* self.counter
  heads              \* the heads Output has produced

vars == <<record, strand_opt, nostart, minlength, maxlength, gc_opt, pc,
          self_seq, self_length, rseq, seq, strand, frame_coordinates, f, idx,
          start_site, CDS, all_CDS, counter, heads>>

options == <<record, strand_opt, nostart, minlength, maxlength, gc_opt>>

\* The records drawn as input.
Sequences == UNION {[1..k -> Alphabet] : k \in 0..MaxLen}

RECURSIVE CodonRuns(_)
CodonRuns(k) ==
  IF k = 0 THEN {<<>>}
  ELSE CodonRuns(k - 1) \cup {c \o r : c \in Codons, r \in CodonRuns(k - 1)}

Records ==
  Sequences \cup {p \o r \o t : p \in Pads, r \in CodonRuns(MaxCodons), t \in Tails}

None == <<"None">>

Init ==
  /\ record \in Records
  /\ strand_opt \in Strands
  /\ nostart \in NoStarts
  /\ minlength \in MinLengths
  /\ maxlength \in MaxLengths
  /\ gc_opt \in GcFlags
  /\ pc = "ReadFile"
  /\ self_seq = <<>>
  /\ self_length = 0
  /\ rseq = None
  /\ seq = <<>>
  /\ strand = 1
  /\ frame_coordinates = <<>>
  /\ f = 0
  /\ idx = 0
  /\ start_site = 0
  /\ CDS = <<>>
  /\ all_CDS = <<>>
  /\ counter = 0
  /\ heads = <<>>

plus == strand_opt \in {"both", "plus"}
minus == strand_opt \in {"both", "minus"}

\* ReadFile, lines 60-73: slice the record and reset the per-record state.
ReadFile ==
  /\ pc = "ReadFile"
  /\ LET s == IF OptStop > 0 THEN PySlice(record, OptStart, OptStop)
              ELSE PySlice(record, OptStart, Len(record))
     IN /\ self_seq' = s
        /\ self_length' = Len(s)
  /\ rseq' = None
  /\ all_CDS' = <<>>
  /\ pc' = "plus"
  /\ UNCHANGED <<options, seq, strand, frame_coordinates, f, idx, start_site,
                 CDS, counter, heads>>

\* GetCDS entered, lines 149-155.
EnterGetCDS(s, sign) ==
  /\ seq' = s
  /\ strand' = sign
  /\ frame_coordinates' = GetOrfCoordinates(s)
  /\ CDS' = <<>>
  /\ f' = 0
  /\ idx' = 0
  /\ start_site' = 0
  /\ pc' = "frames"

\* ReadFile, lines 74-75.
PlusStrand ==
  /\ pc = "plus"
  /\ plus
  /\ EnterGetCDS(self_seq, 1)
  /\ UNCHANGED <<options, self_seq, self_length, rseq, all_CDS, counter, heads>>

SkipPlus ==
  /\ pc = "plus"
  /\ ~plus
  /\ pc' = "minus"
  /\ UNCHANGED <<options, self_seq, self_length, rseq, seq, strand,
                 frame_coordinates, f, idx, start_site, CDS, all_CDS, counter, heads>>

\* ReadFile, lines 76-78.
MinusStrand ==
  /\ pc = "minus"
  /\ minus
  /\ rseq' = reverse_complement(self_seq)
  /\ EnterGetCDS(rseq', -1)
  /\ UNCHANGED <<options, self_seq, self_length, all_CDS, counter, heads>>

SkipMinus ==
  /\ pc = "minus"
  /\ ~minus
  /\ pc' = "Output"
  /\ UNCHANGED <<options, self_seq, self_length, rseq, seq, strand,
                 frame_coordinates, f, idx, start_site, CDS, all_CDS, counter, heads>>

\* GetCDS, lines 156-161: the next frame is taken and its sentinel appended.
NextFrame ==
  /\ pc = "frames"
  /\ f < 3
  /\ f' = f + 1
  /\ start_site' = InitialStart(nostart)
  /\ frame_coordinates' =
       [frame_coordinates EXCEPT ![f + 1] = AppendSentinel(@, self_length)]
  /\ idx' = 1
  /\ pc' = "boundary"
  /\ UNCHANGED <<options, self_seq, self_length, rseq, seq, strand, CDS,
                 all_CDS, counter, heads>>

\* The boundary the inner loop is at.
Boundary == frame_coordinates[f][idx]

AtBoundary == pc = "boundary" /\ idx <= Len(frame_coordinates[f])

\* GetCDS, lines 163-165.
StartBoundary ==
  /\ AtBoundary
  /\ Boundary.codon_type = START
  /\ start_site' = OnStart(start_site, Boundary.pos)
  /\ idx' = idx + 1
  /\ UNCHANGED <<options, pc, self_seq, self_length, rseq, seq, strand,
                 frame_coordinates, f, CDS, all_CDS, counter, heads>>

\* GetCDS, lines 166-168.
StopSkipped ==
  /\ AtBoundary
  /\ Boundary.codon_type = STOP
  /\ start_site = 0
  /\ idx' = idx + 1
  /\ UNCHANGED <<options, pc, self_seq, self_length, rseq, seq, strand,
                 frame_coordinates, f, start_site, CDS, all_CDS, counter, heads>>

\* GetCDS, lines 170-182.
StopEmitted ==
  /\ AtBoundary
  /\ Boundary.codon_type = STOP
  /\ start_site # 0
  /\ LET stop0 == StopEnd(Boundary.pos)
         length == OrfLength(stop0, start_site)
         start1 == ShiftStart(nostart, start_site, f)
         stop1 == AdjustStop(Boundary.codon, stop0, start1)
         s == PySlice(seq, start1 - 1, stop1)
     IN /\ InBounds(length, minlength, maxlength)
        /\ CDS' = Append(CDS, [start |-> start1, stop |-> stop1, length |-> length,
                               s |-> s, strand |-> strand * f])
        /\ start_site' = Reopen(nostart, stop1)
  /\ idx' = idx + 1
  /\ UNCHANGED <<options, pc, self_seq, self_length, rseq, seq, strand,
                 frame_coordinates, f, all_CDS, counter, heads>>

\* GetCDS, lines 170-173 and 183-186.
StopRejected ==
  /\ AtBoundary
  /\ Boundary.codon_type = STOP
  /\ start_site # 0
  /\ LET stop0 == StopEnd(Boundary.pos)
         length == OrfLength(stop0, start_site)
     IN /\ ~InBounds(length, minlength, maxlength)
        /\ OutOfBounds(length, minlength, maxlength)
        /\ start_site' = Reopen(nostart, stop0)
  /\ idx' = idx + 1
  /\ UNCHANGED <<options, pc, self_seq, self_length, rseq, seq, strand,
                 frame_coordinates, f, CDS, all_CDS, counter, heads>>

\* The inner loop is exhausted: back to the loop over the frames.
FrameDone ==
  /\ pc = "boundary"
  /\ idx > Len(frame_coordinates[f])
  /\ pc' = "frames"
  /\ UNCHANGED <<options, self_seq, self_length, rseq, seq, strand,
                 frame_coordinates, f, idx, start_site, CDS, all_CDS, counter, heads>>

\* GetCDS returns (line 188) and ReadFile extends its list (lines 75, 78).
ReturnCDS ==
  /\ pc = "frames"
  /\ f = 3
  /\ all_CDS' = all_CDS \o CDS
  /\ pc' = IF strand = 1 THEN "minus" ELSE "Output"
  /\ UNCHANGED <<options, self_seq, self_length, rseq, seq, strand,
                 frame_coordinates, f, idx, start_site, CDS, counter, heads>>

\* ----------------------------------------------------------------- Output
\* The head of one record, lines 194-206.
OrfHead(r, count, n) ==
  [counter |-> count,
   strand |-> r.strand,
   start |-> IF r.strand > 0 THEN r.start ELSE n - r.stop + 1,
   stop |-> IF r.strand > 0 THEN r.stop ELSE n - r.start + 1,
   gc |-> IF gc_opt THEN Gc2(r.s) ELSE [error |-> "off", gcall |-> 0, gc |-> <<0, 0, 0>>]]

\* Index of the first record whose Gc2 raises, or Len + 1.
FirstFailure(cds) ==
  LET bad == {i \in 1..Len(cds) : gc_opt /\ Gc2(cds[i].s).error # "none"}
  IN IF bad = {} THEN Len(cds) + 1
     ELSE CHOOSE i \in bad : \A j \in bad : i <= j

\* Output, lines 190-214: the records before the first failure are written.
Output ==
  /\ pc = "Output"
  /\ LET n == Len(self_seq)
         k == FirstFailure(all_CDS)
     IN /\ heads' = [i \in 1..(k - 1) |-> OrfHead(all_CDS[i], counter + i, n)]
        /\ counter' = IF k > Len(all_CDS) THEN counter + Len(all_CDS) ELSE counter + k
        /\ pc' = IF k > Len(all_CDS) THEN "done" ELSE "ZeroDivisionError"
  /\ UNCHANGED <<options, self_seq, self_length, rseq, seq, strand,
                 frame_coordinates, f, idx, start_site, CDS, all_CDS>>

Next ==
  \/ ReadFile
  \/ PlusStrand
  \/ SkipPlus
  \/ MinusStrand
  \/ SkipMinus
  \/ NextFrame
  \/ StartBoundary
  \/ StopSkipped
  \/ StopEmitted
  \/ StopRejected
  \/ FrameDone
  \/ ReturnCDS
  \/ Output

Spec == Init /\ [][Next]_vars

\* ============================================================= properties
\* Every record GetCDS has emitted so far for this FASTA record.
EmittedRecords ==
  {CDS[i] : i \in 1..Len(CDS)} \cup {all_CDS[i] : i \in 1..Len(all_CDS)}

\* GetCDS has computed the frame lists.
Scanned == frame_coordinates # <<>>

\* The boundaries GetOrfCoordinates reported for frame k: the list without
\* the sentinel GetCDS appends once it takes the frame.
Reported(k) ==
  IF k <= f THEN SubSeq(frame_coordinates[k], 1, Len(frame_coordinates[k]) - 1)
  ELSE frame_coordinates[k]

\* The codon of seq at 1-based position p.
CodonAt(p) == SubSeq(seq, p, p + 2)

\* C1: every emitted record has minlength <= length <= maxlength, so no
\* record is emitted when minlength > maxlength.
C1_LengthWithinBounds ==
  /\ \A r \in EmittedRecords : minlength <= r.length /\ r.length <= maxlength
  /\ minlength > maxlength => EmittedRecords = {}

C1_Witness ==
  /\ pc = "done"
  /\ \E r \in EmittedRecords : r.length = minlength /\ minlength > 1

\* C5: every boundary reported for frame offset k - 1 is at a position
\* p = k (mod 3) with p + 2 <= n, carries the codon at p and its kind, the
\* positions ascend, and every complete in-frame start or stop codon is reported.
C5_FrameBoundaries ==
  Scanned =>
    \A k \in 1..3 :
      LET b == Reported(k)
          n == Len(seq)
      IN /\ \A i \in 1..Len(b) :
              /\ b[i].pos % 3 = k % 3
              /\ 1 <= b[i].pos /\ b[i].pos + 2 <= n
              /\ b[i].codon = CodonAt(b[i].pos)
              /\ b[i].codon_type = START <=> b[i].codon \in start_codons
              /\ b[i].codon_type = STOP <=> b[i].codon \in stop_codons
         /\ \A i \in 1..(Len(b) - 1) : b[i].pos < b[i + 1].pos
         /\ \A p \in 1..(n - 2) :
              (p % 3 = k % 3 /\ CodonAt(p) \in start_codons \cup stop_codons)
                => \E i \in 1..Len(b) : b[i].pos = p

\* A frame whose last complete codon is a boundary and is followed by a
\* partial codon.
C5_Witness ==
  /\ Scanned
  /\ Len(seq) % 3 # 0
  /\ \E k \in 1..3 : \E i \in 1..Len(Reported(k)) :
        /\ Reported(k)[i].pos + 2 < Len(seq)
        /\ Reported(k)[i].pos + 5 > Len(seq)
        /\ Len(Reported(k)) >= 2

\* C6: in every frame list GetCDS passes over, on either strand and for
\* sequences of any length, the sentinel (len(S), STOP, "XXX") is there exactly
\* once and is last; with ignore_start off no ORF is left open once the
\* list is exhausted.
C6_SentinelLast ==
  Scanned =>
    /\ \A k \in 1..f :
         LET fr == frame_coordinates[k]
         IN /\ Len(fr) >= 1
            /\ fr[Len(fr)] = [pos |-> Len(seq), codon_type |-> STOP, codon |-> XXX]
            /\ Cardinality({i \in 1..Len(fr) : fr[i].codon = XXX}) = 1
    /\ (pc = "boundary" /\ idx > Len(frame_coordinates[f]) /\ nostart = "0")
         => start_site = 0

\* On the minus strand, a frame whose only real boundary is a START has been
\* closed by the sentinel with a record.
C6_Witness ==
  /\ pc = "boundary"
  /\ strand = -1
  /\ nostart = "0"
  /\ idx > Len(frame_coordinates[f])
  /\ Len(frame_coordinates[f]) = 2
  /\ frame_coordinates[f][1].codon_type = START
  /\ \E i \in 1..Len(CDS) : CDS[i].strand = strand * f

\* The records of CDS emitted in the frame GetCDS is passing over.
FrameRecords == SelectSeq(CDS, LAMBDA r : r.strand = strand * f)

\* The sentinel of the current frame has not been reached yet.
BeforeSentinel == pc = "boundary" /\ idx < Len(frame_coordinates[f])

\* C2: a record closed by a real stop codon has length = stop - start + 1
\* and length % 3 = 0, start being the reported start, with ignore_start off
\* and on.  (Before the sentinel is reached every record of the current frame
\* was closed by a real stop codon.)
C2_LengthIsSpan ==
  BeforeSentinel =>
    \A i \in 1..Len(FrameRecords) :
      LET r == FrameRecords[i]
      IN r.length = r.stop - r.start + 1 /\ r.length % 3 = 0

\* C3: a record closed by the sentinel ends at the largest stop <= len(S)
\* for which stop - start + 1, the length of the extracted subsequence, is a
\* multiple of 3.
C3_SentinelTruncation ==
  [][(AtBoundary /\ Boundary.codon = XXX /\ Len(CDS') = Len(CDS) + 1) =>
       LET r == CDS'[Len(CDS')]
       IN /\ (r.stop - r.start + 1) % 3 = 0
          /\ r.stop <= Boundary.pos
          /\ r.stop + 3 > Boundary.pos
          /\ Len(r.s) = r.stop - r.start + 1]_vars

\* s is one start codon, then codons that are neither start nor stop, then
\* one stop codon.
IsSimpleOrf(s) ==
  LET n == Len(s)
  IN /\ n >= 6
     /\ n % 3 = 0
     /\ SubSeq(s, 1, 3) \in start_codons
     /\ SubSeq(s, n - 2, n) \in stop_codons
     /\ \A j \in 1..((n \div 3) - 2) :
          SubSeq(s, 3 * j + 1, 3 * j + 3) \notin start_codons \cup stop_codons

\* GetCDS has finished frame 1 of the plus strand.
Frame1Done ==
  \/ pc \in {"minus", "Output", "done", "ZeroDivisionError"}
  \/ pc = "frames" /\ f >= 1
  \/ pc = "boundary" /\ f >= 2

\* C4: with strand=plus and ignore_start off, frame 1 of a start codon, k
\* codons that are neither start nor stop and a stop codon (n symbols) gives
\* exactly the record (1, n, n, +1) when minlength <= n <= maxlength and no
\* record when minlength > n.
C4_SimpleOrf ==
  (strand_opt = "plus" /\ nostart = "0" /\ IsSimpleOrf(self_seq) /\ Frame1Done) =>
    LET n == Len(self_seq)
        frame1 == SelectSeq(CDS, LAMBDA r : r.strand = 1)
    IN /\ (minlength <= n /\ n <= maxlength) =>
            frame1 = <<[start |-> 1, stop |-> n, length |-> n, s |-> self_seq,
                        strand |-> 1]>>
       /\ minlength > n => frame1 = <<>>

C4_Witness ==
  /\ strand_opt = "plus"
  /\ nostart = "0"
  /\ IsSimpleOrf(self_seq)
  /\ pc = "done"
  /\ Len(self_seq) = 9
  /\ minlength = 7
  /\ Len(SelectSeq(CDS, LAMBDA r : r.strand = 1)) = 1

\* C7: Gc2 never fails on an extracted subsequence: Output ends without an
\* exception and every head carries its percentages.
C7_Gc2NeverFails ==
  /\ pc # "ZeroDivisionError"
  /\ \A i \in 1..Len(heads) : heads[i].gc.error \in {"none", "off"}

\* Index in fr of the last STOP boundary before index j, or 0.
PrevStop(fr, j) ==
  LET S == {i \in 1..(j - 1) : fr[i].codon_type = STOP}
  IN IF S = {} THEN 0 ELSE CHOOSE i \in S : \A k \in S : k <= i

\* Index in fr of the first START boundary after index p and before j, or 0.
FirstStart(fr, p, j) ==
  LET S == {i \in (p + 1)..(j - 1) : fr[i].codon_type = START}
  IN IF S = {} THEN 0 ELSE CHOOSE i \in S : \A k \in S : i <= k

\* C8: with ignore_start off, an ORF is open exactly when a START boundary
\* came after the last STOP boundary, and it is open at the first such
\* START; a START never moves an open start and emits nothing; a STOP with
\* no ORF open emits nothing and changes nothing; a STOP with an ORF open
\* closes it, and a record it emits starts at that first START.
C8_TwoStateMachine ==
  [][(nostart = "0" /\ AtBoundary) =>
       LET fr == frame_coordinates[f]
           b == fr[idx]
           opened == FirstStart(fr, PrevStop(fr, idx), idx)
       IN /\ start_site = (IF opened = 0 THEN 0 ELSE fr[opened].pos)
          /\ b.codon_type = START =>
               /\ CDS' = CDS
               /\ start_site' = (IF start_site = 0 THEN b.pos ELSE start_site)
          /\ b.codon_type = STOP =>
               /\ start_site' = 0
               /\ start_site = 0 => CDS' = CDS
               /\ CDS' # CDS =>
                    /\ opened # 0
                    /\ SubSeq(CDS', 1, Len(CDS)) = CDS
                    /\ Len(CDS') = Len(CDS) + 1
                    /\ CDS'[Len(CDS')].start = fr[opened].pos
                    /\ b.codon # XXX => CDS'[Len(CDS')].stop = b.pos + 2]_vars

\* A frame that begins START, START, STOP has given a record from the first
\* START to the STOP.
C8_Witness ==
  /\ nostart = "0"
  /\ pc = "boundary"
  /\ idx >= 4
  /\ LET fr == frame_coordinates[f]
     IN /\ fr[1].codon_type = START
        /\ fr[2].codon_type = START
        /\ fr[3].codon_type = STOP
        /\ \E i \in 1..Len(FrameRecords) :
             /\ FrameRecords[i].start = fr[1].pos
             /\ FrameRecords[i].stop = fr[3].pos + 2

\* C9 as stated, for the records closed by a real stop codon: with
\* ignore_start on an ORF is open at every boundary, and the first record
\* emitted in frame f starts at f.
C9_FirstRecordStartsAtFrame ==
  (nostart = "1" /\ pc = "boundary") =>
    /\ idx <= Len(frame_coordinates[f]) => start_site # 0
    /\ (BeforeSentinel /\ FrameRecords # <<>>) => FrameRecords[1].start = f

\* C9 amended: with ignore_start on an ORF is open at every boundary, at 1
\* before the first STOP boundary and at the previous STOP boundary's
\* stop + 1 after it; a START changes nothing; a STOP, emitted or rejected,
\* reopens at stop + 1; the record closed by the first STOP boundary of
\* frame f starts at f, every other record at the previous STOP boundary's
\* stop + 1.
C9_AlwaysOpen ==
  [][(nostart = "1" /\ AtBoundary) =>
       LET fr == frame_coordinates[f]
           b == fr[idx]
           p == PrevStop(fr, idx)
       IN /\ start_site # 0
          /\ start_site = (IF p = 0 THEN 1 ELSE fr[p].pos + 3)
          /\ b.codon_type = START => (CDS' = CDS /\ start_site' = start_site)
          /\ b.codon_type = STOP =>
               /\ CDS' = CDS => start_site' = b.pos + 3
               /\ CDS' # CDS =>
                    /\ SubSeq(CDS', 1, Len(CDS)) = CDS
                    /\ Len(CDS') = Len(CDS) + 1
                    /\ CDS'[Len(CDS')].start = (IF p = 0 THEN f ELSE fr[p].pos + 3)
                    /\ start_site' = CDS'[Len(CDS')].stop + 1
                    /\ b.codon # XXX => CDS'[Len(CDS')].stop = b.pos + 2]_vars

\* In frame 2 or 3 a first STOP boundary was rejected and the next one gave
\* a record that starts at the rejected stop + 1.
C9_Witness ==
  /\ nostart = "1"
  /\ pc = "boundary"
  /\ f >= 2
  /\ idx = 3
  /\ LET fr == frame_coordinates[f]
     IN /\ Len(FrameRecords) = 1
        /\ FrameRecords[1].start = fr[1].pos + 3
        /\ FrameRecords[1].stop = fr[2].pos + 2
        /\ fr[2].codon # XXX

\* C10: every emitted record has 1 <= start <= stop <= n and a non-empty
\* subsequence of stop - start + 1 symbols, and the coordinates Output
\* writes lie in 1..n.
C10_CoordinatesInside ==
  LET n == Len(self_seq)
  IN /\ \A r \in EmittedRecords :
          /\ 1 <= r.start /\ r.start <= r.stop /\ r.stop <= n
          /\ r.s # <<>>
          /\ Len(r.s) = r.stop - r.start + 1
     /\ \A i \in 1..Len(heads) :
          /\ heads[i].start \in 1..n
          /\ heads[i].stop \in 1..n

====
